---------------------------- MODULE Spec2Model ----------------------------
(***************************************************************************)
(* The collections service (routes/collections.ts) over its PostgreSQL     *)
(* store (schema.ts and the migration with the capacity trigger).          *)
(*                                                                         *)
(* The store is the committed content of the three tables.  Every request  *)
(* is a process whose position (pc) is the await point it stands at; a     *)
(* statement inside db.transaction writes to the transaction's own buffer  *)
(* and takes row locks that are held until commit or rollback.  The store  *)
(* runs at READ COMMITTED: every statement reads the rows committed when   *)
(* it starts plus the transaction's own writes, and a SELECT ... FOR       *)
(* UPDATE that finds a row locked waits, then re-reads the row.            *)
(***************************************************************************)
EXTENDS Integers, Sequences, FiniteSets, TLC

\* ------------------------------------------------------------- bounds
\* Concurrent requests through the service.
NumProcs == 2
\* Concurrent transactions that insert into collection_items directly, and
\* the rows each of them inserts.
NumWriters == 2
RawRows == 3

\* ---------------------------------------------------- program constants
MAX_ITEMS_PER_COLLECTION == 5
MAX_NAME_ATTEMPTS == 25
\* The literal of the trigger's IF (SELECT COUNT(*) ...) >= 5.
TRIGGER_ITEM_LIMIT == 5

VARIABLES
    users,          \* table users: the set of user ids
    collections,    \* table collections: records [id, userId, name, createdAt]
    items,          \* table collection_items, committed rows: [id, collectionId, itemId, note]
    itemSeq,        \* the serial sequence of collection_items.id (last value given)
    collSeq,        \* the serial sequence of collections.id (last value given)
    clock,          \* now() of the store
    tx,             \* per request: its input, position, statement results, transaction buffer
    locks           \* per request: the row locks its transaction holds

vars == <<users, collections, items, itemSeq, collSeq, clock, tx, locks>>

\* ------------------------------------------------------------- values
NullNote == [isNull |-> TRUE, text |-> ""]
Note(s) == [isNull |-> FALSE, text |-> s]
NoRow == [id |-> 0, collectionId |-> 0, itemId |-> "", note |-> NullNote]
NoError == [http |-> 0, code |-> "", message |-> ""]

CollKey(id) == <<"collections", id>>
ItemKey(id) == <<"collection_items", id>>

\* The X-User-ID header of a request: absent, or a string.
NoHeader == [isNull |-> TRUE, text |-> ""]
Header(s) == [isNull |-> FALSE, text |-> s]

\* A request that has just arrived: its input and an empty transaction.
NewTx(kind, userId, id, target, itemId, note, name, pc) ==
    [kind |-> kind, userId |-> userId, id |-> id, target |-> target,
     itemId |-> itemId, note |-> note, name |-> name, attempt |-> 0, pc |-> pc,
     snap |-> {}, item |-> NoRow, row |-> NoRow, rest |-> <<>>,
     inserted |-> {}, deleted |-> {}, status |-> 0, error |-> NoError,
     created |-> 0, result |-> <<>>, header |-> Header(userId)]

Procs == DOMAIN tx

\* --------------------------------------------------------- error mapping
LowerChar(c) ==
    CASE c = "C" -> "c" [] c = "L" -> "l" [] c = "R" -> "r" [] c = "I" -> "i"
      [] c = "T" -> "t" [] c = "F" -> "f" [] OTHER -> c

RECURSIVE toLowerCase(_)
toLowerCase(s) ==
    IF Len(s) = 0 THEN ""
    ELSE LowerChar(SubSeq(s, 1, 1)) \o toLowerCase(SubSeq(s, 2, Len(s)))

includes(s, t) ==
    \E i \in 1..(Len(s) - Len(t) + 1) : SubSeq(s, i, i + Len(t) - 1) = t

\* The errors the store raises.
LimitError == [http |-> 0, code |-> "P0001", message |-> "Collection is full"]
UniqueError ==
    [http |-> 0, code |-> "23505",
     message |-> "duplicate key value violates unique constraint"]
DeadlockError == [http |-> 0, code |-> "40P01", message |-> "deadlock detected"]
HTTPException(status) == [http |-> status, code |-> "", message |-> ""]
\* new HTTPException(status, { message }).
HTTPExceptionOf(status, message) ==
    [http |-> status, code |-> "", message |-> message]

isUniqueViolation(error) == error.code = "23505"

isLimitViolation(error) ==
    /\ error.code # ""
    /\ includes(toLowerCase(error.message), "limit reached")

\* The catch block of add-item and move-item, then app.onError.
CatchStatus(error) ==
    IF error.http # 0 THEN error.http
    ELSE IF isLimitViolation(error) THEN 400
    ELSE IF isUniqueViolation(error) THEN 409
    ELSE 500

\* ------------------------------------------------------------ the store
\* What a statement of p reads: the committed rows and p's own writes.
Visible(p) ==
    {r \in items : r.id \notin tx[p].deleted} \cup tx[p].inserted

ItemsOf(rows, c) == {r \in rows : r.collectionId = c}

Ids(rows) == {r.id : r \in rows}

\* Faulty variant: the statements run outside a transaction, every write is
\* committed at once.
CommittedWriteThrough(ins, del) == {r \in items : r.id \notin del} \cup ins

\* db.transaction: what the other connections see of a transaction's writes
\* before it commits (nothing).
CommittedAfterWrite(ins, del) == items

HeldByOther(p, key) == \E q \in Procs \ {p} : key \in locks[q]

\* Faulty variant: plain SELECTs, no row is ever waited for.
CanLockNoWait(p, keys) == TRUE

\* .for("update"): the rows can be locked when no other transaction holds them.
CanLock(p, keys) == \A k \in keys : ~HeldByOther(p, k)

\* The rows of a statement's snapshot that still exist when it locks them.
Live(p, ids) == {r \in Visible(p) : r.id \in ids}

LiveKeys(p, ids) == {ItemKey(r.id) : r \in Live(p, ids)}

\* Faulty variant: the collection is looked up by its id alone.
OwnedAnyUser(id, userId) == {c \in collections : c.id = id}

\* The request owns the collection: WHERE id = :id AND user_id = :userId.
Owned(id, userId) == {c \in collections : c.id = id /\ c.userId = userId}

\* Faulty variant: the error is reported but the transaction is left open,
\* its row locks are not released.
FailKeepsLocks(p, error) ==
    /\ tx' = [tx EXCEPT ![p].pc = "done",
                        ![p].status = IF tx[p].kind = "raw" THEN 0
                                      ELSE CatchStatus(error),
                        ![p].error = error, ![p].snap = {},
                        ![p].inserted = {}, ![p].deleted = {}]
    /\ UNCHANGED <<users, collections, items, itemSeq, collSeq, clock, locks>>

\* End of a request whose transaction is rolled back (or never wrote).
Fail(p, error) ==
    /\ tx' = [tx EXCEPT ![p].pc = "done",
                        ![p].status = IF tx[p].kind = "raw" THEN 0
                                      ELSE CatchStatus(error),
                        ![p].error = error, ![p].snap = {},
                        ![p].inserted = {}, ![p].deleted = {}]
    /\ locks' = [locks EXCEPT ![p] = {}]
    /\ UNCHANGED <<users, collections, items, itemSeq, collSeq, clock>>

\* The row locks the next statement of p asks for.
Wanted(p) ==
    CASE tx[p].pc \in {"collection", "source"} ->
            {CollKey(c.id) : c \in Owned(tx[p].id, tx[p].userId)}
      [] tx[p].pc = "target" ->
            {CollKey(c.id) : c \in Owned(tx[p].target, tx[p].userId)}
      [] tx[p].pc \in {"existingLock", "lockedItemsLock", "itemLock",
                       "lockedTargetItemsLock", "duplicateLock", "trigger"} ->
            LiveKeys(p, tx[p].snap)
      [] OTHER -> {}

\* ------------------------------------------------------------- add-item
\* Faulty variant: the collection is read without .for("update").
AddCollectionNoLock(p) ==
    /\ tx[p].kind = "add" /\ tx[p].pc = "collection"
    /\ IF Owned(tx[p].id, tx[p].userId) = {}
       THEN Fail(p, HTTPExceptionOf(404, "Collection not found"))
       ELSE /\ tx' = [tx EXCEPT ![p].pc = "existing"]
            /\ UNCHANGED <<users, collections, items, itemSeq, collSeq, clock,
                           locks>>

\* (a) the collection of the caller, locked.
AddCollection(p) ==
    /\ tx[p].kind = "add" /\ tx[p].pc = "collection"
    /\ LET found == Owned(tx[p].id, tx[p].userId) IN
       /\ CanLock(p, Wanted(p))
       /\ IF found = {}
          THEN Fail(p, HTTPExceptionOf(404, "Collection not found"))
          ELSE /\ tx' = [tx EXCEPT ![p].pc = "existing"]
               /\ locks' = [locks EXCEPT ![p] = @ \cup Wanted(p)]
               /\ UNCHANGED <<users, collections, items, itemSeq, collSeq, clock>>

\* Faulty variant: the duplicate probe compares the row id, not the item id,
\* and finds nothing.
AddExistingOtherColumn(p) ==
    /\ tx[p].kind = "add" /\ tx[p].pc = "existing"
    /\ tx' = [tx EXCEPT ![p].pc = "existingLock", ![p].snap = {}]
    /\ UNCHANGED <<users, collections, items, itemSeq, collSeq, clock, locks>>

\* (b) SELECT ... WHERE collection_id = :id AND item_id = :itemId FOR UPDATE.
AddExisting(p) ==
    /\ tx[p].kind = "add" /\ tx[p].pc = "existing"
    /\ tx' = [tx EXCEPT ![p].pc = "existingLock",
                        ![p].snap = Ids({r \in ItemsOf(Visible(p), tx[p].id) :
                                            r.itemId = tx[p].itemId})]
    /\ UNCHANGED <<users, collections, items, itemSeq, collSeq, clock, locks>>
\* The duplicate probe of a handler that counted the rows first.
AddExistingLockCapacityFirst(p) ==
    /\ tx[p].kind = "add" /\ tx[p].pc = "existingLock"
    /\ CanLock(p, Wanted(p))
    /\ IF Cardinality(ItemsOf(Visible(p), tx[p].id)) >= MAX_ITEMS_PER_COLLECTION
       THEN Fail(p, HTTPException(400))
       ELSE IF Live(p, tx[p].snap) # {}
       THEN Fail(p, HTTPException(409))
       ELSE /\ tx' = [tx EXCEPT ![p].pc = "lockedItems", ![p].snap = {}]
            /\ locks' = [locks EXCEPT ![p] = @ \cup Wanted(p)]
            /\ UNCHANGED <<users, collections, items, itemSeq, collSeq, clock>>

\* Faulty variant: a duplicate is reported as 400 instead of 409.
AddExistingLockWrongStatus(p) ==
    /\ tx[p].kind = "add" /\ tx[p].pc = "existingLock"
    /\ CanLock(p, Wanted(p))
    /\ IF Live(p, tx[p].snap) # {}
       THEN Fail(p, HTTPException(400))
       ELSE /\ tx' = [tx EXCEPT ![p].pc = "lockedItems", ![p].snap = {}]
            /\ locks' = [locks EXCEPT ![p] = @ \cup Wanted(p)]
            /\ UNCHANGED <<users, collections, items, itemSeq, collSeq, clock>>

AddExistingLock(p) ==
    /\ tx[p].kind = "add" /\ tx[p].pc = "existingLock"
    /\ CanLock(p, Wanted(p))
    /\ IF Live(p, tx[p].snap) # {}
       THEN Fail(p, HTTPException(409))
       ELSE /\ tx' = [tx EXCEPT ![p].pc = "lockedItems", ![p].snap = {}]
            /\ locks' = [locks EXCEPT ![p] = @ \cup Wanted(p)]
            /\ UNCHANGED <<users, collections, items, itemSeq, collSeq, clock>>

\* (c) SELECT id ... WHERE collection_id = :id FOR UPDATE.
AddLockedItems(p) ==
    /\ tx[p].kind = "add" /\ tx[p].pc = "lockedItems"
    /\ tx' = [tx EXCEPT ![p].pc = "lockedItemsLock",
                        ![p].snap = Ids(ItemsOf(Visible(p), tx[p].id))]
    /\ UNCHANGED <<users, collections, items, itemSeq, collSeq, clock, locks>>

\* Faulty variant: the capacity check is off by one (> instead of >=).
AddLockedItemsLockOffByOne(p) ==
    /\ tx[p].kind = "add" /\ tx[p].pc = "lockedItemsLock"
    /\ CanLock(p, Wanted(p))
    /\ IF Cardinality(Live(p, tx[p].snap)) > MAX_ITEMS_PER_COLLECTION
       THEN Fail(p, HTTPException(400))
       ELSE /\ tx' = [tx EXCEPT ![p].pc = "insert", ![p].snap = {},
                      ![p].row = [id |-> 0, collectionId |-> tx[p].id,
                                  itemId |-> tx[p].itemId, note |-> tx[p].note]]
            /\ locks' = [locks EXCEPT ![p] = @ \cup Wanted(p)]
            /\ UNCHANGED <<users, collections, items, itemSeq, collSeq, clock>>

AddLockedItemsLock(p) ==
    /\ tx[p].kind = "add" /\ tx[p].pc = "lockedItemsLock"
    /\ CanLock(p, Wanted(p))
    /\ IF Cardinality(Live(p, tx[p].snap)) >= MAX_ITEMS_PER_COLLECTION
       THEN Fail(p, HTTPException(400))
       ELSE /\ tx' = [tx EXCEPT ![p].pc = "insert", ![p].snap = {},
                      ![p].row = [id |-> 0, collectionId |-> tx[p].id,
                                  itemId |-> tx[p].itemId, note |-> tx[p].note]]
            /\ locks' = [locks EXCEPT ![p] = @ \cup Wanted(p)]
            /\ UNCHANGED <<users, collections, items, itemSeq, collSeq, clock>>

\* ------------------------------------ INSERT INTO collection_items
\* (d) The row gets its serial id, then the BEFORE INSERT trigger starts:
\* PERFORM 1 FROM collection_items WHERE collection_id = NEW.collection_id
\* FOR UPDATE reads its snapshot.
InsertStart(p) ==
    /\ tx[p].pc = "insert"
    /\ itemSeq' = itemSeq + 1
    /\ tx' = [tx EXCEPT ![p].pc = "trigger",
                        ![p].row = [@ EXCEPT !.id = itemSeq + 1],
                        ![p].snap = Ids(ItemsOf(Visible(p), tx[p].row.collectionId))]
    /\ UNCHANGED <<users, collections, items, collSeq, clock, locks>>

\* The trigger locks the rows it read and counts the collection's rows.
TriggerCheck(p) ==
    /\ tx[p].pc = "trigger"
    /\ CanLock(p, Wanted(p))
    /\ IF Cardinality(ItemsOf(Visible(p), tx[p].row.collectionId)) >= TRIGGER_ITEM_LIMIT
       THEN Fail(p, LimitError)
       ELSE /\ tx' = [tx EXCEPT ![p].pc = "index", ![p].snap = {}]
            /\ locks' = [locks EXCEPT ![p] = @ \cup Wanted(p)]
            /\ UNCHANGED <<users, collections, items, itemSeq, collSeq, clock>>

SameKey(r, s) == r.collectionId = s.collectionId /\ r.itemId = s.itemId

\* The unique index collection_items_collection_item_key: an insert waits for
\* a transaction in flight that wrote or deletes a row of the same key.
IndexWaitsFor(p, q) ==
    \/ \E r \in tx[q].inserted : SameKey(r, tx[p].row)
    \/ \E r \in items : SameKey(r, tx[p].row) /\ r.id \in tx[q].deleted

IndexWait(p) == \E q \in Procs \ {p} : IndexWaitsFor(p, q)

\* Faulty variant: the table has no unique index on (collection_id, item_id).
IndexConflictNever(p) == FALSE

IndexConflict(p) ==
    \E r \in Visible(p) : SameKey(r, tx[p].row)

IndexInsert(p) ==
    /\ tx[p].pc = "index"
    /\ ~IndexWait(p)
    /\ IF IndexConflict(p)
       THEN Fail(p, UniqueError)
       ELSE /\ tx' = [tx EXCEPT ![p].pc = IF tx[p].kind = "move" THEN "delete"
                                          ELSE IF tx[p].rest # <<>> THEN "insert"
                                          ELSE "commit",
                           ![p].inserted = @ \cup {tx[p].row},
                           ![p].row = IF tx[p].rest # <<>> THEN Head(tx[p].rest)
                                      ELSE @,
                           ![p].rest = IF tx[p].rest # <<>> THEN Tail(@) ELSE @]
            /\ items' = CommittedAfterWrite({tx[p].row}, {})
            /\ UNCHANGED <<users, collections, itemSeq, collSeq, clock, locks>>

\* COMMIT: the buffer becomes visible at once and the locks are released.
SuccessStatus(kind) ==
    IF kind = "move" THEN 200 ELSE IF kind = "raw" THEN 0 ELSE 201

Commit(p) ==
    /\ tx[p].pc = "commit"
    /\ items' = {r \in items : r.id \notin tx[p].deleted} \cup tx[p].inserted
    /\ tx' = [tx EXCEPT ![p].pc = "done", ![p].status = SuccessStatus(tx[p].kind),
                        ![p].inserted = {}, ![p].deleted = {}]
    /\ locks' = [locks EXCEPT ![p] = {}]
    /\ UNCHANGED <<users, collections, itemSeq, collSeq, clock>>

\* The first statement of a handler that compared the two ids only after it
\* had selected the source.
MoveSourceLookupFirst(p) ==
    /\ tx[p].kind = "move" /\ tx[p].pc = "source"
    /\ CanLock(p, Wanted(p))
    /\ IF Owned(tx[p].id, tx[p].userId) = {}
       THEN Fail(p, HTTPExceptionOf(404, "Source collection not found"))
       ELSE IF tx[p].id = tx[p].target
       THEN Fail(p, HTTPException(400))
       ELSE /\ tx' = [tx EXCEPT ![p].pc = "target"]
            /\ locks' = [locks EXCEPT ![p] = @ \cup Wanted(p)]
            /\ UNCHANGED <<users, collections, items, itemSeq, collSeq, clock>>

\* ------------------------------------------------------------ move-item
\* Source and target must differ; then (a) the source collection, locked.
MoveSource(p) ==
    /\ tx[p].kind = "move" /\ tx[p].pc = "source"
    /\ IF tx[p].id = tx[p].target
       THEN Fail(p, HTTPException(400))
       ELSE /\ CanLock(p, Wanted(p))
            /\ IF Owned(tx[p].id, tx[p].userId) = {}
               THEN Fail(p, HTTPExceptionOf(404, "Source collection not found"))
               ELSE /\ tx' = [tx EXCEPT ![p].pc = "target"]
                    /\ locks' = [locks EXCEPT ![p] = @ \cup Wanted(p)]
                    /\ UNCHANGED <<users, collections, items, itemSeq, collSeq, clock>>

\* Faulty variant: the target is selected by its id alone.
MoveTargetAnyOwner(p) ==
    /\ tx[p].kind = "move" /\ tx[p].pc = "target"
    /\ CanLock(p, Wanted(p))
    /\ IF {c \in collections : c.id = tx[p].target} = {}
       THEN Fail(p, HTTPExceptionOf(404, "Target collection not found"))
       ELSE /\ tx' = [tx EXCEPT ![p].pc = "item"]
            /\ locks' = [locks EXCEPT ![p] = @ \cup Wanted(p)]
            /\ UNCHANGED <<users, collections, items, itemSeq, collSeq, clock>>

\* (b) the target collection, locked.
MoveTarget(p) ==
    /\ tx[p].kind = "move" /\ tx[p].pc = "target"
    /\ CanLock(p, Wanted(p))
    /\ IF Owned(tx[p].target, tx[p].userId) = {}
       THEN Fail(p, HTTPExceptionOf(404, "Target collection not found"))
       ELSE /\ tx' = [tx EXCEPT ![p].pc = "item"]
            /\ locks' = [locks EXCEPT ![p] = @ \cup Wanted(p)]
            /\ UNCHANGED <<users, collections, items, itemSeq, collSeq, clock>>

\* (c) the item's row in the source, locked.
MoveItem(p) ==
    /\ tx[p].kind = "move" /\ tx[p].pc = "item"
    /\ tx' = [tx EXCEPT ![p].pc = "itemLock",
                        ![p].snap = Ids({r \in ItemsOf(Visible(p), tx[p].id) :
                                            r.itemId = tx[p].itemId})]
    /\ UNCHANGED <<users, collections, items, itemSeq, collSeq, clock, locks>>

MoveItemLock(p) ==
    /\ tx[p].kind = "move" /\ tx[p].pc = "itemLock"
    /\ CanLock(p, Wanted(p))
    /\ IF Live(p, tx[p].snap) = {}
       THEN Fail(p, HTTPExceptionOf(404, "Item not found in source collection"))
       ELSE /\ \E item \in Live(p, tx[p].snap) :
                  tx' = [tx EXCEPT ![p].pc = "lockedTargetItems", ![p].snap = {},
                                   ![p].item = item]
            /\ locks' = [locks EXCEPT ![p] = @ \cup Wanted(p)]
            /\ UNCHANGED <<users, collections, items, itemSeq, collSeq, clock>>

\* (d) the rows of the target, locked and counted.
MoveLockedTargetItems(p) ==
    /\ tx[p].kind = "move" /\ tx[p].pc = "lockedTargetItems"
    /\ tx' = [tx EXCEPT ![p].pc = "lockedTargetItemsLock",
                        ![p].snap = Ids(ItemsOf(Visible(p), tx[p].target))]
    /\ UNCHANGED <<users, collections, items, itemSeq, collSeq, clock, locks>>

\* The capacity check of a handler that looked for the duplicate first.
MoveLockedTargetItemsLockDuplicateFirst(p) ==
    /\ tx[p].kind = "move" /\ tx[p].pc = "lockedTargetItemsLock"
    /\ CanLock(p, Wanted(p))
    /\ IF \E r \in Live(p, tx[p].snap) : r.itemId = tx[p].itemId
       THEN Fail(p, HTTPException(409))
       ELSE IF Cardinality(Live(p, tx[p].snap)) >= MAX_ITEMS_PER_COLLECTION
       THEN Fail(p, HTTPException(400))
       ELSE /\ tx' = [tx EXCEPT ![p].pc = "duplicate", ![p].snap = {}]
            /\ locks' = [locks EXCEPT ![p] = @ \cup Wanted(p)]
            /\ UNCHANGED <<users, collections, items, itemSeq, collSeq, clock>>

\* Faulty variant: the capacity check of the target is off by one.
MoveLockedTargetItemsLockOffByOne(p) ==
    /\ tx[p].kind = "move" /\ tx[p].pc = "lockedTargetItemsLock"
    /\ CanLock(p, Wanted(p))
    /\ IF Cardinality(Live(p, tx[p].snap)) > MAX_ITEMS_PER_COLLECTION
       THEN Fail(p, HTTPException(400))
       ELSE /\ tx' = [tx EXCEPT ![p].pc = "duplicate", ![p].snap = {}]
            /\ locks' = [locks EXCEPT ![p] = @ \cup Wanted(p)]
            /\ UNCHANGED <<users, collections, items, itemSeq, collSeq, clock>>

MoveLockedTargetItemsLock(p) ==
    /\ tx[p].kind = "move" /\ tx[p].pc = "lockedTargetItemsLock"
    /\ CanLock(p, Wanted(p))
    /\ IF Cardinality(Live(p, tx[p].snap)) >= MAX_ITEMS_PER_COLLECTION
       THEN Fail(p, HTTPException(400))
       ELSE /\ tx' = [tx EXCEPT ![p].pc = "duplicate", ![p].snap = {}]
            /\ locks' = [locks EXCEPT ![p] = @ \cup Wanted(p)]
            /\ UNCHANGED <<users, collections, items, itemSeq, collSeq, clock>>

\* (e) a row of the same item id in the target.
MoveDuplicate(p) ==
    /\ tx[p].kind = "move" /\ tx[p].pc = "duplicate"
    /\ tx' = [tx EXCEPT ![p].pc = "duplicateLock",
                        ![p].snap = Ids({r \in ItemsOf(Visible(p), tx[p].target) :
                                            r.itemId = tx[p].itemId})]
    /\ UNCHANGED <<users, collections, items, itemSeq, collSeq, clock, locks>>

\* Faulty variant: the note is not carried over.
MovedRowWithoutNote(p) ==
    [id |-> 0, collectionId |-> tx[p].target, itemId |-> tx[p].itemId,
     note |-> NullNote]

\* The row the move inserts into the target: the item id and item.note.
MovedRow(p) ==
    [id |-> 0, collectionId |-> tx[p].target, itemId |-> tx[p].itemId,
     note |-> tx[p].item.note]

MoveDuplicateLock(p) ==
    /\ tx[p].kind = "move" /\ tx[p].pc = "duplicateLock"
    /\ CanLock(p, Wanted(p))
    /\ IF Live(p, tx[p].snap) # {}
       THEN Fail(p, HTTPException(409))
       ELSE /\ tx' = [tx EXCEPT ![p].pc = "insert", ![p].snap = {},
                                ![p].row = MovedRow(p)]
            /\ locks' = [locks EXCEPT ![p] = @ \cup Wanted(p)]
            /\ UNCHANGED <<users, collections, items, itemSeq, collSeq, clock>>

\* Faulty variant: the DELETE matches no row, the source keeps the item.
MoveDeleteNoRow(p) ==
    /\ tx[p].kind = "move" /\ tx[p].pc = "delete"
    /\ tx' = [tx EXCEPT ![p].pc = "commit"]
    /\ UNCHANGED <<users, collections, items, itemSeq, collSeq, clock, locks>>

\* (g) DELETE FROM collection_items WHERE id = item.id.
MoveDelete(p) ==
    /\ tx[p].kind = "move" /\ tx[p].pc = "delete"
    /\ tx' = [tx EXCEPT ![p].pc = "commit", ![p].deleted = @ \cup {tx[p].item.id}]
    /\ items' = CommittedAfterWrite({}, {tx[p].item.id})
    /\ UNCHANGED <<users, collections, itemSeq, collSeq, clock, locks>>

\* ------------------------------------------------------ deadlock detection
\* p waits for q: the statement p stands at needs a row lock q holds, or its
\* index entry waits for q's transaction to end.
WaitsFor(p, q) ==
    /\ p # q
    /\ \/ \E k \in Wanted(p) : k \in locks[q]
       \/ tx[p].pc = "index" /\ IndexWaitsFor(p, q)

RECURSIVE Reaches(_, _, _)
Reaches(p, q, n) ==
    \/ WaitsFor(p, q)
    \/ /\ n > 0
       /\ \E r \in Procs : WaitsFor(p, r) /\ Reaches(r, q, n - 1)

CircularWait(p) == Reaches(p, p, Cardinality(Procs))

\* The store's deadlock detector aborts one transaction of the cycle; the
\* error (40P01) is none the catch block maps.
DeadlockAbort(p) ==
    /\ CircularWait(p)
    /\ Fail(p, DeadlockError)

\* ------------------------------------------------------ create-collection
isSpace(c) == c \in {" ", "\t", "\n"}

RECURSIVE trimStart(_)
trimStart(s) ==
    IF Len(s) > 0 /\ isSpace(SubSeq(s, 1, 1))
    THEN trimStart(SubSeq(s, 2, Len(s))) ELSE s

RECURSIVE trimEnd(_)
trimEnd(s) ==
    IF Len(s) > 0 /\ isSpace(SubSeq(s, Len(s), Len(s)))
    THEN trimEnd(SubSeq(s, 1, Len(s) - 1)) ELSE s

trim(s) == trimEnd(trimStart(s))

\* Faulty variant: the suffix counts the attempts, not the collisions.
candidateNameOffByOne(baseName, attempt) ==
    IF attempt = 0 THEN baseName
    ELSE baseName \o " (" \o ToString(attempt + 1) \o ")"

candidateName(baseName, attempt) ==
    IF attempt = 0 THEN baseName
    ELSE baseName \o " (" \o ToString(attempt) \o ")"

\* ensureUserExists (INSERT ... ON CONFLICT DO NOTHING), then the name is
\* trimmed and checked.
CreateEnsureUser(p) ==
    /\ tx[p].kind = "create" /\ tx[p].pc = "ensureUser"
    /\ users' = users \cup {tx[p].userId}
    /\ tx' = IF trim(tx[p].name) = ""
             THEN [tx EXCEPT ![p].pc = "done", ![p].status = 400]
             ELSE [tx EXCEPT ![p].pc = "attempt"]
    /\ UNCHANGED <<collections, items, itemSeq, collSeq, clock, locks>>

\* Faulty variant: the table has no unique index on (user_id, name).
NameTakenNever(userId, name) == FALSE

\* The unique index collections_user_name_key.
NameTaken(userId, name) ==
    \E c \in collections : c.userId = userId /\ c.name = name

\* Faulty variant: while (attempt <= MAX_NAME_ATTEMPTS), one pass too many.
CreateAttemptOneMore(p) ==
    /\ tx[p].kind = "create" /\ tx[p].pc = "attempt"
    /\ collSeq' = collSeq + 1
    /\ LET name == candidateName(trim(tx[p].name), tx[p].attempt) IN
       IF NameTaken(tx[p].userId, name)
       THEN /\ tx' = IF tx[p].attempt + 1 <= MAX_NAME_ATTEMPTS
                     THEN [tx EXCEPT ![p].attempt = @ + 1]
                     ELSE [tx EXCEPT ![p].attempt = @ + 1, ![p].pc = "done",
                                     ![p].status = 500]
            /\ UNCHANGED <<collections, clock>>
       ELSE \E now \in {clock, clock + 1} :
            /\ clock' = now
            /\ collections' = collections \cup
                   {[id |-> collSeq + 1, userId |-> tx[p].userId, name |-> name,
                     createdAt |-> now]}
            /\ tx' = [tx EXCEPT ![p].pc = "done", ![p].status = 201,
                                ![p].created = collSeq + 1]
    /\ UNCHANGED <<users, items, itemSeq, locks>>

\* One pass of the while loop: one INSERT INTO collections, in its own
\* transaction; a unique violation moves on to the next candidate.
CreateAttempt(p) ==
    /\ tx[p].kind = "create" /\ tx[p].pc = "attempt"
    /\ collSeq' = collSeq + 1
    /\ LET name == candidateName(trim(tx[p].name), tx[p].attempt) IN
       IF NameTaken(tx[p].userId, name)
       THEN /\ tx' = IF tx[p].attempt + 1 < MAX_NAME_ATTEMPTS
                     THEN [tx EXCEPT ![p].attempt = @ + 1]
                     ELSE [tx EXCEPT ![p].attempt = @ + 1, ![p].pc = "done",
                                     ![p].status = 500]
            /\ UNCHANGED <<collections, clock>>
       ELSE \E now \in {clock, clock + 1} :
            /\ clock' = now
            /\ collections' = collections \cup
                   {[id |-> collSeq + 1, userId |-> tx[p].userId, name |-> name,
                     createdAt |-> now]}
            /\ tx' = [tx EXCEPT ![p].pc = "done", ![p].status = 201,
                                ![p].created = collSeq + 1]
    /\ UNCHANGED <<users, items, itemSeq, locks>>

\* --------------------------------------------------------- list-collections
\* btrim(text) removes the leading and trailing spaces (no other character).
RECURSIVE btrimStart(_)
btrimStart(s) ==
    IF Len(s) > 0 /\ SubSeq(s, 1, 1) = " "
    THEN btrimStart(SubSeq(s, 2, Len(s))) ELSE s

RECURSIVE btrimEnd(_)
btrimEnd(s) ==
    IF Len(s) > 0 /\ SubSeq(s, Len(s), Len(s)) = " "
    THEN btrimEnd(SubSeq(s, 1, Len(s) - 1)) ELSE s

btrim(s) == btrimEnd(btrimStart(s))

\* The columns of collection_items in the joined row of a collection that
\* has no item: all NULL.
NullItem == [id |-> 0, collectionId |-> 0, itemId |-> "", note |-> NullNote]

\* collections LEFT JOIN collection_items ON collections.id = collection_id:
\* the item side of the joined rows of collection c.
leftJoin(rows, c) ==
    IF ItemsOf(rows, c.id) = {} THEN {NullItem} ELSE ItemsOf(rows, c.id)

\* COALESCE(COUNT(collection_items.id), 0): the joined rows whose id is not NULL.
itemCountExpr(joined) == Cardinality({r \in joined : r # NullItem})

\* CASE WHEN btrim(note) <> '' THEN 2 ELSE 1 END: the comparison is NULL,
\* and the ELSE branch is taken, when the note is NULL.
NoteValue(r) ==
    IF ~r.note.isNull /\ btrim(r.note.text) # "" THEN 2 ELSE 1

\* COALESCE(SUM(CASE ... END), 0): the sum is NULL only over no row at all.
relevanceExpr(joined) ==
    IF joined = {} THEN 0
    ELSE Cardinality({r \in joined : NoteValue(r) = 2}) * 2
         + Cardinality({r \in joined : NoteValue(r) = 1})

\* The row of the result for collection c.
ListRow(rows, c) ==
    [id |-> c.id, name |-> c.name, createdAt |-> c.createdAt,
     itemCount |-> itemCountExpr(leftJoin(rows, c)),
     relevanceScore |-> relevanceExpr(leftJoin(rows, c))]

\* ORDER BY relevance_score DESC, created_at DESC: x may stand before y.
orderBy(x, y) ==
    \/ x.relevanceScore > y.relevanceScore
    \/ x.relevanceScore = y.relevanceScore /\ x.createdAt >= y.createdAt

\* The sequences that hold every row of the set once.
Arrangements(rowSet) ==
    {f \in [1..Cardinality(rowSet) -> rowSet] :
        \A i, j \in DOMAIN f : i # j => f[i] # f[j]}

\* GET /collections: one SELECT over the committed rows; rows that are equal
\* in both sort keys come in any order.
ListCollections(p) ==
    /\ tx[p].kind = "list" /\ tx[p].pc = "list"
    /\ LET rowSet == {ListRow(items, c) :
                         c \in {d \in collections : d.userId = tx[p].userId}} IN
       \E results \in Arrangements(rowSet) :
          /\ \A i \in 1..(Len(results) - 1) : orderBy(results[i], results[i + 1])
          /\ tx' = [tx EXCEPT ![p].pc = "done", ![p].status = 200,
                              ![p].result = results]
    /\ UNCHANGED <<users, collections, items, itemSeq, collSeq, clock, locks>>

\* --------------------------------------------------------------- middleware
\* The first step of the handler the route selects.
Handler(kind) ==
    CASE kind = "add" -> "collection"
      [] kind = "move" -> "source"
      [] kind = "create" -> "ensureUser"
      [] OTHER -> "list"

\* Faulty variant: only an absent header is refused (userId === undefined).
MiddlewareAbsentOnly(p) ==
    /\ tx[p].pc = "middleware"
    /\ tx' = IF tx[p].header.isNull
             THEN [tx EXCEPT ![p].pc = "done", ![p].status = 401]
             ELSE [tx EXCEPT ![p].userId = tx[p].header.text,
                             ![p].pc = Handler(tx[p].kind)]
    /\ UNCHANGED <<users, collections, items, itemSeq, collSeq, clock, locks>>

\* app.use("*"): if (!userId) the request is answered with 401, otherwise
\* the user id is set and the handler runs.
Middleware(p) ==
    /\ tx[p].pc = "middleware"
    /\ tx' = IF tx[p].header.isNull \/ tx[p].header.text = ""
             THEN [tx EXCEPT ![p].pc = "done", ![p].status = 401]
             ELSE [tx EXCEPT ![p].userId = tx[p].header.text,
                             ![p].pc = Handler(tx[p].kind)]
    /\ UNCHANGED <<users, collections, items, itemSeq, collSeq, clock, locks>>

\* --------------------------------------------------------------- requests
AddReq(userId, id, itemId, note) ==
    NewTx("add", userId, id, 0, itemId, note, "", "collection")

MoveReq(userId, itemId, source, target) ==
    NewTx("move", userId, source, target, itemId, NullNote, "", "source")

CreateReq(userId, name) ==
    NewTx("create", userId, 0, 0, "", NullNote, name, "ensureUser")

ListReq(userId) ==
    NewTx("list", userId, 0, 0, "", NullNote, "", "list")

\* The request as it reaches the application, with its header.
Incoming(req, header) ==
    [req EXCEPT !.userId = "", !.header = header, !.pc = "middleware"]

\* The requests of the service workload.
Requests ==
    << AddReq("u1", 1, "x", Note("hello")),
       AddReq("u1", 1, "y", NullNote),
       AddReq("u1", 2, "x", Note(" ")),
       AddReq("u2", 1, "y", NullNote),
       AddReq("u1", 9, "y", NullNote),
       MoveReq("u1", "x", 1, 2),
       MoveReq("u1", "x", 2, 1),
       MoveReq("u1", "y", 1, 2),
       MoveReq("u1", "x", 1, 1),
       MoveReq("u1", "x", 1, 3),
       CreateReq("u1", " A ") >>

\* The requests are handled alike whichever connection runs them: the
\* workload of n connections is a multiset of requests.
RECURSIVE Workloads(_, _)
Workloads(n, reqs) ==
    IF n = 0 THEN {<<>>}
    ELSE {Append(w, i) : w \in Workloads(n - 1, reqs), i \in 1..Len(reqs)}

Sorted(w) == \A i \in 1..(Len(w) - 1) : w[i] <= w[i + 1]

\* ------------------------------------------------------------ initial store
\* n rows f1..fn without a note, and the row of item x with a note.
Fillers(c, n) ==
    {[id |-> 10 * c + k, collectionId |-> c, itemId |-> "f" \o ToString(k),
      note |-> NullNote] : k \in 1..n}

RowX(c) == [id |-> 10 * c + 9, collectionId |-> c, itemId |-> "x", note |-> Note("n")]

\* The contents a collection starts with: <<number of fillers, whether x is there>>.
Contents == {<<0, FALSE>>, <<0, TRUE>>, <<4, FALSE>>, <<4, TRUE>>, <<5, FALSE>>}

RowsOf(c, content) ==
    Fillers(c, content[1]) \cup (IF content[2] THEN {RowX(c)} ELSE {})

InitStore ==
    /\ users = {"u1", "u2"}
    /\ collections =
         {[id |-> 1, userId |-> "u1", name |-> "A", createdAt |-> 1],
          [id |-> 2, userId |-> "u1", name |-> "B", createdAt |-> 2],
          [id |-> 3, userId |-> "u2", name |-> "A", createdAt |-> 3]}
    /\ collSeq = 3
    /\ clock = 3
    /\ itemSeq = 40

Init ==
    /\ InitStore
    /\ \E c1 \in Contents, c2 \in Contents :
         items = RowsOf(1, c1) \cup RowsOf(2, c2) \cup RowsOf(3, <<0, TRUE>>)
    /\ \E w \in {v \in Workloads(NumProcs, Requests) : Sorted(v)} :
         tx = [p \in 1..NumProcs |-> Requests[w[p]]]
    /\ locks = [p \in 1..NumProcs |-> {}]

Next ==
    \E p \in 1..NumProcs :
        \/ AddCollection(p)
        \/ AddExisting(p)
        \/ AddExistingLock(p)
        \/ AddLockedItems(p)
        \/ AddLockedItemsLock(p)
        \/ InsertStart(p)
        \/ TriggerCheck(p)
        \/ IndexInsert(p)
        \/ Commit(p)
        \/ MoveSource(p)
        \/ MoveTarget(p)
        \/ MoveItem(p)
        \/ MoveItemLock(p)
        \/ MoveLockedTargetItems(p)
        \/ MoveLockedTargetItemsLock(p)
        \/ MoveDuplicate(p)
        \/ MoveDuplicateLock(p)
        \/ MoveDelete(p)
        \/ DeadlockAbort(p)
        \/ CreateEnsureUser(p)
        \/ CreateAttempt(p)

Spec == Init /\ [][Next]_vars

\* ------------------------------------------- concurrent adds to one collection
\* Every connection adds an item to collection 1, which starts with k rows.
AddRequests == [i \in 1..NumProcs |-> AddReq("u1", 1, "n" \o ToString(i), NullNote)]

InitAdds ==
    /\ InitStore
    /\ \E k \in 0..MAX_ITEMS_PER_COLLECTION : items = Fillers(1, k)
    /\ \E w \in {v \in Workloads(NumProcs, AddRequests) : Sorted(v)} :
         tx = [p \in 1..NumProcs |-> AddRequests[w[p]]]
    /\ locks = [p \in 1..NumProcs |-> {}]

NextAdds ==
    \E p \in 1..NumProcs :
        \/ AddCollection(p)
        \/ AddExisting(p)
        \/ AddExistingLock(p)
        \/ AddLockedItems(p)
        \/ AddLockedItemsLock(p)
        \/ InsertStart(p)
        \/ TriggerCheck(p)
        \/ IndexInsert(p)
        \/ Commit(p)

SpecAdds == InitAdds /\ [][NextAdds]_vars

\* ------------------------------------------------ writers that bypass the service
\* insert into collection_items (collection_id, item_id) values (:c, :itemId),
\* once for every item id, in one transaction.
RawRow(c, itemId) ==
    [id |-> 0, collectionId |-> c, itemId |-> itemId, note |-> NullNote]

RawReq(c, itemIds) ==
    [NewTx("raw", "", c, 0, "", NullNote, "", "insert") EXCEPT
        !.row = RawRow(c, Head(itemIds)),
        !.rest = [i \in 1..(Len(itemIds) - 1) |-> RawRow(c, itemIds[i + 1])]]

InitRaw ==
    /\ InitStore
    /\ \E k \in {0, 4, MAX_ITEMS_PER_COLLECTION} : items = Fillers(1, k)
    /\ tx = [p \in 1..NumWriters |->
                RawReq(1, [i \in 1..RawRows |->
                              "raw-" \o ToString(p) \o "-" \o ToString(i)])]
    /\ locks = [p \in 1..NumWriters |-> {}]

NextRaw ==
    \E p \in 1..NumWriters :
        \/ InsertStart(p)
        \/ TriggerCheck(p)
        \/ IndexInsert(p)
        \/ Commit(p)

SpecRaw == InitRaw /\ [][NextRaw]_vars

\* --------------------------------------- the service beside a bypassing writer
MixedRequests ==
    << RawReq(1, <<"x">>),
       RawReq(1, <<"y">>),
       AddReq("u1", 1, "x", Note("hello")),
       MoveReq("u1", "x", 2, 1) >>

InitMixed ==
    /\ InitStore
    /\ \E k \in {0, 4} : items = Fillers(1, k) \cup {RowX(2)}
    /\ \E w \in {v \in Workloads(NumProcs, MixedRequests) : Sorted(v)} :
         tx = [p \in 1..NumProcs |-> MixedRequests[w[p]]]
    /\ locks = [p \in 1..NumProcs |-> {}]

NextMixed ==
    \E p \in 1..NumProcs :
        \/ AddCollection(p)
        \/ AddExisting(p)
        \/ AddExistingLock(p)
        \/ AddLockedItems(p)
        \/ AddLockedItemsLock(p)
        \/ InsertStart(p)
        \/ TriggerCheck(p)
        \/ IndexInsert(p)
        \/ Commit(p)
        \/ MoveSource(p)
        \/ MoveTarget(p)
        \/ MoveItem(p)
        \/ MoveItemLock(p)
        \/ MoveLockedTargetItems(p)
        \/ MoveLockedTargetItemsLock(p)
        \/ MoveDuplicate(p)
        \/ MoveDuplicateLock(p)
        \/ MoveDelete(p)

SpecMixed == InitMixed /\ [][NextMixed]_vars

\* ------------------------------------------------ create-collection requests
\* The names user u1 holds after k creations with the name A: A (collection 1
\* of InitStore), A (1), ..., A (k - 1).
CreatedBefore(k) ==
    {[id |-> j + 3, userId |-> "u1", name |-> candidateName("A", j),
      createdAt |-> j + 3] : j \in 1..(k - 1)}

CreateRequests ==
    << CreateReq("u1", " A "),
       CreateReq("u1", "A (1)"),
       CreateReq("u2", "A"),
       CreateReq("u3", "A"),
       CreateReq("u3", " \t") >>

InitCreate ==
    /\ users = {"u1", "u2"}
    /\ \E k \in {1, MAX_NAME_ATTEMPTS - 1} :
         /\ collections =
              {[id |-> 1, userId |-> "u1", name |-> "A", createdAt |-> 1],
               [id |-> 2, userId |-> "u1", name |-> "B", createdAt |-> 2],
               [id |-> 3, userId |-> "u2", name |-> "A", createdAt |-> 3]}
              \cup CreatedBefore(k)
         /\ collSeq = k + 2
         /\ clock = k + 2
    /\ itemSeq = 40
    /\ items = RowsOf(1, <<0, TRUE>>)
    /\ \E w \in {v \in Workloads(NumProcs, CreateRequests) : Sorted(v)} :
         tx = [p \in 1..NumProcs |-> CreateRequests[w[p]]]
    /\ locks = [p \in 1..NumProcs |-> {}]

NextCreate ==
    \E p \in 1..NumProcs :
        \/ CreateEnsureUser(p)
        \/ CreateAttempt(p)

SpecCreate == InitCreate /\ [][NextCreate]_vars

\* ------------------------------------- requests on collections of other users
\* Requests that name a collection of another user, their twins that name a
\* collection that does not exist, and two requests of the owner.
AccessRequests ==
    << AddReq("u2", 1, "x", NullNote),
       AddReq("u2", 9, "x", NullNote),
       MoveReq("u2", "x", 1, 3),
       MoveReq("u2", "x", 9, 3),
       MoveReq("u1", "x", 1, 3),
       MoveReq("u1", "x", 1, 9),
       AddReq("u1", 1, "y", NullNote),
       MoveReq("u1", "x", 1, 2) >>

InitAccess ==
    /\ InitStore
    /\ \E c1 \in {<<0, TRUE>>, <<4, TRUE>>},
          c2 \in {<<0, FALSE>>, <<5, FALSE>>},
          c3 \in {<<0, TRUE>>, <<5, FALSE>>} :
         items = RowsOf(1, c1) \cup RowsOf(2, c2) \cup RowsOf(3, c3)
    /\ \E w \in {v \in Workloads(NumProcs, AccessRequests) : Sorted(v)} :
         tx = [p \in 1..NumProcs |-> AccessRequests[w[p]]]
    /\ locks = [p \in 1..NumProcs |-> {}]

SpecAccess == InitAccess /\ [][NextMixed]_vars

\* ----------------------------------------------------- listing collections
\* The items of collection c, one for every note of the sequence.
ItemsWithNotes(c, notes) ==
    {[id |-> 10 * c + k, collectionId |-> c, itemId |-> "i" \o ToString(k),
      note |-> notes[k]] : k \in 1..Len(notes)}

ListRequests ==
    << ListReq("u1"),
       ListReq("u2"),
       AddReq("u1", 1, "z", Note("n")) >>

\* u1 holds the collections 1, 2 and 4, created in this order (4 perhaps
\* within the same clock tick as 2), u2 the collection 3.
InitList ==
    /\ users = {"u1", "u2"}
    /\ \E t \in {2, 4} :
         collections =
           {[id |-> 1, userId |-> "u1", name |-> "A", createdAt |-> 1],
            [id |-> 2, userId |-> "u1", name |-> "B", createdAt |-> 2],
            [id |-> 3, userId |-> "u2", name |-> "A", createdAt |-> 3],
            [id |-> 4, userId |-> "u1", name |-> "C", createdAt |-> t]}
    /\ collSeq = 4
    /\ clock = 4
    /\ itemSeq = 50
    /\ \E n1 \in {<<>>, <<NullNote>>, <<Note("n")>>, <<Note(" ")>>, <<Note("\t")>>,
                  <<Note("")>>, <<Note("n"), NullNote>>},
          n2 \in {<<>>, <<NullNote>>, <<Note("n")>>},
          n4 \in {<<>>, <<NullNote>>, <<Note("n")>>, <<Note(" n ")>>} :
         items = ItemsWithNotes(1, n1) \cup ItemsWithNotes(2, n2)
                 \cup ItemsWithNotes(3, <<Note("n")>>) \cup ItemsWithNotes(4, n4)
    /\ \E w \in {v \in Workloads(NumProcs, ListRequests) : Sorted(v)} :
         tx = [p \in 1..NumProcs |-> ListRequests[w[p]]]
    /\ locks = [p \in 1..NumProcs |-> {}]

NextList ==
    \E p \in 1..NumProcs :
        \/ AddCollection(p)
        \/ AddExisting(p)
        \/ AddExistingLock(p)
        \/ AddLockedItems(p)
        \/ AddLockedItemsLock(p)
        \/ InsertStart(p)
        \/ TriggerCheck(p)
        \/ IndexInsert(p)
        \/ Commit(p)
        \/ ListCollections(p)

SpecList == InitList /\ [][NextList]_vars

\* -------------------------------------------- requests with and without identity
AuthRequests ==
    << AddReq("", 1, "y", Note("hello")),
       MoveReq("", "x", 1, 2),
       CreateReq("", "A"),
       ListReq("") >>

AuthHeaders == <<NoHeader, Header(""), Header("u1")>>

IncomingRequests ==
    [i \in 1..(Len(AuthRequests) * Len(AuthHeaders)) |->
        Incoming(AuthRequests[((i - 1) % Len(AuthRequests)) + 1],
                 AuthHeaders[((i - 1) \div Len(AuthRequests)) + 1])]

InitAuth ==
    /\ InitStore
    /\ items = RowsOf(1, <<0, TRUE>>)
    /\ \E w \in {v \in Workloads(NumProcs, IncomingRequests) : Sorted(v)} :
         tx = [p \in 1..NumProcs |-> IncomingRequests[w[p]]]
    /\ locks = [p \in 1..NumProcs |-> {}]

NextAuth ==
    \E p \in 1..NumProcs :
        \/ Middleware(p)
        \/ AddCollection(p)
        \/ AddExisting(p)
        \/ AddExistingLock(p)
        \/ AddLockedItems(p)
        \/ AddLockedItemsLock(p)
        \/ InsertStart(p)
        \/ TriggerCheck(p)
        \/ IndexInsert(p)
        \/ Commit(p)
        \/ MoveSource(p)
        \/ MoveTarget(p)
        \/ MoveItem(p)
        \/ MoveItemLock(p)
        \/ MoveLockedTargetItems(p)
        \/ MoveLockedTargetItemsLock(p)
        \/ MoveDuplicate(p)
        \/ MoveDuplicateLock(p)
        \/ MoveDelete(p)
        \/ CreateEnsureUser(p)
        \/ CreateAttempt(p)
        \/ ListCollections(p)

SpecAuth == InitAuth /\ [][NextAuth]_vars

\* =========================================================== properties
Count(c) == Cardinality(ItemsOf(items, c))

Done(p) == tx[p].pc = "done"

AllDone == \A p \in Procs : Done(p)

\* C1: in every committed state reached by concurrent create-collection,
\* add-item and move-item requests, every collection holds at most 5 items.
CapacityInvariant == \A c \in collections : Count(c.id) <= 5

\* Two adds raced for the last place of a collection: one took it, the other
\* was refused, and the collection holds 5 rows.
CapacityWitness ==
    \E p, q \in Procs :
        /\ tx[p].kind = "add" /\ tx[q].kind = "add" /\ tx[p].id = tx[q].id
        /\ Done(p) /\ tx[p].status = 201
        /\ Done(q) /\ tx[q].status = 400
        /\ Count(tx[p].id) = 5

\* C2: the ceiling of 5 rows holds for writers that insert into
\* collection_items directly, guarded only by the trigger, also from an empty
\* collection; the insert that would be the 6th is refused with P0001.
RawCapacityInvariant ==
    /\ \A c \in collections : Count(c.id) <= 5
    /\ \A p \in Procs :
          (tx[p].kind = "raw" /\ Done(p) /\ tx[p].error # NoError)
              => tx[p].error.code = "P0001"

\* C3: no interleaving of add-item and move-item transactions reaches a
\* circular lock wait.
NoCircularWait == \A p \in Procs : ~CircularWait(p)

\* The request of p names an item id; whether a row of it is in the source
\* (for an add: the collection) and in the target.
InSource(rows, p) == \E r \in ItemsOf(rows, tx[p].id) : r.itemId = tx[p].itemId

InTarget(rows, p) == \E r \in ItemsOf(rows, tx[p].target) : r.itemId = tx[p].itemId

InExactlyOne(rows, p) == InSource(rows, p) # InTarget(rows, p)

IsStepOf(p) == tx'[p] # tx[p]

\* A move that passed its checks and has not ended: the committed store holds
\* the item in the source and not in the target.
MoveInFlight ==
    \A p \in Procs :
        (tx[p].kind = "move"
            /\ tx[p].pc \in {"insert", "trigger", "index", "delete", "commit"})
        => (InSource(items, p) /\ ~InTarget(items, p))

\* A step of a move keeps the item in exactly one of source and target.
MoveStepKeepsOne ==
    \A p \in Procs :
        (tx[p].kind = "move" /\ IsStepOf(p) /\ InExactlyOne(items, p))
        => InExactlyOne(items', p)

\* C4: move-item is atomic.  In every committed state, while a move is in
\* flight and when it ends, the moved item is in exactly one of the source and
\* the target, never in both and never in neither.
MoveAtomic == [](MoveInFlight) /\ [][MoveStepKeepsOne]_vars

\* A move has committed: the item left the source and is in the target.
MoveAtomicWitness ==
    \E p \in Procs :
        /\ tx[p].kind = "move" /\ Done(p) /\ tx[p].status = 200
        /\ ~InSource(items, p) /\ InTarget(items, p)

\* The capacity check of a move whose target holds 5 rows ends the request.
MoveIntoFullTargetStep ==
    \A p \in Procs :
        (tx[p].kind = "move" /\ IsStepOf(p)
            /\ tx[p].pc = "lockedTargetItemsLock" /\ Count(tx[p].target) >= 5)
        => /\ tx'[p].pc = "done" /\ tx'[p].status = 400
           /\ items' = items
           /\ locks'[p] = {}

\* C5: a move whose target holds 5 items fails with 400 and leaves the items
\* of the source and of the target (the whole store) unchanged.
MoveIntoFullTarget == [][MoveIntoFullTargetStep]_vars

\* A move was refused for capacity: the target still holds 5 rows and the
\* item is still in the source.
MoveIntoFullTargetWitness ==
    \E p \in Procs :
        /\ tx[p].kind = "move" /\ Done(p) /\ tx[p].status = 400
        /\ tx[p].id # tx[p].target
        /\ Count(tx[p].target) = 5 /\ InSource(items, p) /\ ~InTarget(items, p)

\* The commit of a move, the store before it and after it.
MoveCommitStep ==
    \A p \in Procs :
        (tx[p].kind = "move" /\ tx[p].pc = "commit" /\ tx'[p].pc = "done")
        => LET src == tx[p].id
               tgt == tx[p].target
               old == {r \in ItemsOf(items, src) : r.itemId = tx[p].itemId}
               new == {r \in ItemsOf(items', tgt) : r.itemId = tx[p].itemId}
           IN /\ tx'[p].status = 200
              /\ Cardinality(old) = 1 /\ Cardinality(new) = 1
              /\ \A r \in old : \A n \in new : n.note = r.note
              /\ ItemsOf(items', src) = ItemsOf(items, src) \ old
              /\ ItemsOf(items', tgt) = ItemsOf(items, tgt) \cup new
              /\ new \cap items = {}
              /\ Cardinality(ItemsOf(items', src)) = Count(src) - 1
              /\ Cardinality(ItemsOf(items', tgt)) = Count(tgt) + 1
              /\ \A r \in items \cup items' :
                    r.collectionId \notin {src, tgt} => (r \in items <=> r \in items')

\* C6: a successful move removes the item's row from the source and adds one
\* row to the target with the same item id and the same note; the source's
\* count falls by exactly 1, the target's rises by exactly 1 and no other row
\* of any collection changes.
MoveEffect == [][MoveCommitStep]_vars

\* A move has committed and the row in the target carries a note.
MoveEffectWitness ==
    \E p \in Procs :
        /\ tx[p].kind = "move" /\ Done(p) /\ tx[p].status = 200
        /\ \E r \in ItemsOf(items, tx[p].target) :
              r.itemId = tx[p].itemId /\ ~r.note.isNull
        /\ ~InSource(items, p)

\* The rows collection c started with that are still there.
StartRows(c) == ItemsOf(items, c) \cap Fillers(c, MAX_ITEMS_PER_COLLECTION)

Min(a, b) == IF a <= b THEN a ELSE b

Succeeded == {p \in Procs : Done(p) /\ tx[p].status = 201}

DistinctItemIds == \A p, q \in Procs : p # q => tx[p].itemId # tx[q].itemId

\* C7: of n concurrent adds of pairwise distinct new item ids to a collection
\* that holds k items, exactly min(n, 5-k) succeed and every other one fails
\* with 400; an add to a collection that holds 5 items always fails with 400.
AddsRace ==
    /\ \A p \in Procs :
          (Done(p) /\ Cardinality(StartRows(tx[p].id)) = 5)
              => (tx[p].status = 400 /\ Count(tx[p].id) = 5)
    /\ (AllDone /\ DistinctItemIds)
          => /\ Cardinality(Succeeded) =
                    Min(Cardinality(Procs), 5 - Cardinality(StartRows(1)))
             /\ \A p \in Procs \ Succeeded : tx[p].status = 400

\* Adds of distinct ids have all ended, some accepted and some refused.
AddsRaceWitness ==
    /\ AllDone /\ DistinctItemIds
    /\ Succeeded # {} /\ Succeeded # Procs
    /\ Count(1) = 5

\* The adds of item id i, and the item ids asked for.
AddersOf(i) == {p \in Procs : tx[p].itemId = i}

AskedIds == {tx[p].itemId : p \in Procs}

\* C8: of the concurrent adds of one item id to a collection that does not
\* hold it and has room left, exactly one succeeds and the others fail with
\* 409; the collection then holds the item exactly once.
SameItemAdds ==
    (AllDone /\ Cardinality(StartRows(1)) + Cardinality(AskedIds) <= 5)
    => \A i \in AskedIds :
          Cardinality(AddersOf(i)) >= 2
          => /\ Cardinality(AddersOf(i) \cap Succeeded) = 1
             /\ \A p \in AddersOf(i) \ Succeeded : tx[p].status = 409
             /\ Cardinality({r \in ItemsOf(items, 1) : r.itemId = i}) = 1

\* Two adds of the same item id have ended, one with 201 and one with 409.
SameItemAddsWitness ==
    /\ AllDone
    /\ \E p, q \in Procs :
          /\ p # q /\ tx[p].itemId = tx[q].itemId
          /\ tx[p].status = 201 /\ tx[q].status = 409
          /\ Cardinality({r \in ItemsOf(items, 1) : r.itemId = tx[p].itemId}) = 1

\* C9: in every committed state no item id is present more than once in one
\* collection.
UniqueItems == \A r, s \in items : SameKey(r, s) => r = s

\* The unique index refused an insert whose key is in the collection once.
UniqueItemsWitness ==
    \E p \in Procs :
        /\ Done(p) /\ tx[p].error.code = "23505"
        /\ Cardinality({r \in items : SameKey(r, tx[p].row)}) = 1

\* The duplicate check of an add whose item id is in the collection.
AddDuplicateStep ==
    \A p \in Procs :
        (tx[p].kind = "add" /\ IsStepOf(p)
            /\ tx[p].pc = "existingLock" /\ InSource(items, p))
        => /\ tx'[p].pc = "done" /\ tx'[p].status = 409
           /\ items' = items

\* No add is past its duplicate check while the collection holds its item id.
AddPastDuplicateCheck ==
    \A p \in Procs :
        (tx[p].kind = "add"
            /\ tx[p].pc \in {"lockedItems", "lockedItemsLock", "insert", "trigger",
                            "index", "commit"})
        => ~InSource(items, p)

\* The same item id added by every request to an empty collection.
AddTwiceToEmpty ==
    (AllDone /\ StartRows(1) = {} /\ Cardinality(AskedIds) = 1) => Count(1) = 1

\* C10: an add of an item id the collection already holds fails with 409 and
\* leaves the collection's items and count unchanged; adding the same item id
\* twice to an empty collection leaves its count at 1.
AddDuplicate ==
    /\ [](AddPastDuplicateCheck /\ AddTwiceToEmpty)
    /\ [][AddDuplicateStep]_vars

\* An add was refused as a duplicate and the collection holds the item once.
AddDuplicateWitness ==
    \E p \in Procs :
        /\ tx[p].kind = "add" /\ Done(p) /\ tx[p].status = 409
        /\ Cardinality({r \in ItemsOf(items, tx[p].id) : r.itemId = tx[p].itemId}) = 1
        /\ Count(tx[p].id) = 1

\* ------------------------------------------------------------------ naming
\* The trimmed base names of the requests.
BaseNames == {trim(CreateRequests[i].name) : i \in 1..Len(CreateRequests)}

\* The names the resolver is to give: base after no collision, "base (n)"
\* after n collisions.
SuffixedNames ==
    [base \in BaseNames |->
        [n \in 0..(MAX_NAME_ATTEMPTS + 1) |->
            IF n = 0 THEN base ELSE base \o " (" \o ToString(n) \o ")"]]

SuffixedName(base, n) == SuffixedNames[base][n]

\* The user held the name before the collection with this id was inserted
\* (the ids are given in insertion order).
HeldBefore(id, userId, name) ==
    \E c \in collections : c.id < id /\ c.userId = userId /\ c.name = name

\* The collisions a request for the base name met: the names base, base (1),
\* ... that the user held already, up to the first free one (counted from n).
RECURSIVE CollisionsFrom(_, _, _, _)
CollisionsFrom(id, userId, base, n) ==
    IF /\ n <= MAX_NAME_ATTEMPTS
       /\ \E name \in {SuffixedName(base, n)} : HeldBefore(id, userId, name)
    THEN CollisionsFrom(id, userId, base, n + 1)
    ELSE n

Collisions(id, userId, base) == CollisionsFrom(id, userId, base, 0)

IsCreate(p) == tx[p].kind = "create"

\* C11: a create-collection request that meets N collisions on its trimmed
\* base name among the caller's collections creates exactly "<base> (N)" (the
\* base name itself for N = 0), whatever the other users' collections are.
\* (Collections are never deleted and a finished request's record is frozen,
\* so the requests are all judged once the last one has finished.)
CreateNames ==
    \A p \in Procs :
        AllDone /\ IsCreate(p) /\ tx[p].status = 201 =>
            \E c \in collections :
                /\ c.id = tx[p].created
                /\ c.userId = tx[p].userId
                /\ \E base \in {trim(tx[p].name)} :
                     c.name = SuffixedName(base,
                                  Collisions(c.id, c.userId, base))

\* One request was named after 24 collisions, and a user without
\* collections got the unsuffixed name that two other users hold.
CreateNamesWitness ==
    /\ \E p \in Procs :
         /\ IsCreate(p) /\ Done(p) /\ tx[p].status = 201
         /\ \E c \in collections :
              c.id = tx[p].created /\ c.name = "A (24)" /\ c.userId = "u1"
    /\ \E q \in Procs :
         /\ IsCreate(q) /\ Done(q) /\ tx[q].status = 201
         /\ \E c \in collections :
              c.id = tx[q].created /\ c.name = "A" /\ c.userId = "u3"

\* The collections the store held before the requests arrived.
InitialCollections == {c \in collections : \A p \in Procs : tx[p].created # c.id}

CreatedBy(p) == {c \in collections : c.id = tx[p].created}

SameBase(p, q) ==
    /\ IsCreate(p) /\ IsCreate(q)
    /\ tx[p].userId = tx[q].userId
    /\ trim(tx[p].name) = trim(tx[q].name)
    /\ trim(tx[p].name) # ""

\* The user does not hold the base name when the requests arrive, and asks
\* for no other name meanwhile.
BaseFree(p) ==
    /\ \A c \in InitialCollections :
          ~(c.userId = tx[p].userId /\ c.name = trim(tx[p].name))
    /\ \A r \in Procs :
          IsCreate(r) /\ tx[r].userId = tx[p].userId => SameBase(p, r)

\* C12: no two collections of one user share a name in any committed state;
\* concurrent requests of one user for one base name that is free all
\* succeed, with different names: one gets the base name, the others
\* counter-suffixed ones.
UniqueNames ==
    /\ Cardinality({<<c.userId, c.name>> : c \in collections})
         = Cardinality(collections)
    /\ \A p, q \in Procs :
         AllDone /\ p # q /\ SameBase(p, q) /\ BaseFree(p) =>
            /\ tx[p].status = 201 /\ tx[q].status = 201
            /\ \A c \in CreatedBy(p), d \in CreatedBy(q) : c.name # d.name
            /\ \E r \in Procs :
                 /\ SameBase(p, r)
                 /\ \E c \in CreatedBy(r) : c.name = trim(tx[p].name)
            /\ \E c \in CreatedBy(p) :
                 \E n \in 0..(NumProcs - 1) :
                    c.name = SuffixedName(trim(tx[p].name), n)

\* Two requests of u3 for the name A, which u3 does not hold, have finished.
UniqueNamesWitness ==
    /\ AllDone
    /\ \E p, q \in Procs :
         /\ p # q /\ SameBase(p, q) /\ BaseFree(p) /\ tx[p].userId = "u3"
         /\ \E c \in CreatedBy(p) : c.name = "A"
         /\ \E d \in CreatedBy(q) : d.name = "A (1)"

\* The insert attempts the request has made.
Attempts(p) == tx[p].attempt + (IF tx[p].status = 201 THEN 1 ELSE 0)

\* The user holds the base name and its suffixes (1) to (24).
AllCandidatesHeld(p) ==
    \E base \in {trim(tx[p].name)} :
        \A n \in 0..24 :
            \E c \in collections :
                c.userId = tx[p].userId /\ c.name = SuffixedName(base, n)

AttemptsBounded ==
    \A p \in Procs :
        IsCreate(p) =>
            /\ Attempts(p) <= 25
            /\ Done(p) /\ tx[p].status = 500 =>
                 /\ Attempts(p) = 25
                 /\ tx[p].created = 0
                 /\ AllCandidatesHeld(p)
                 /\ \A c \in collections \ InitialCollections :
                       \E q \in Procs \ {p} : c \in CreatedBy(q)
            /\ Done(p) => tx[p].status \in {201, 400, 500}

\* The steps a create-collection request can still take.
StepsLeft(t) ==
    CASE t.pc = "done" -> 0
      [] t.pc = "attempt" -> MAX_NAME_ATTEMPTS - t.attempt
      [] OTHER -> MAX_NAME_ATTEMPTS + 1

CreateAdvances ==
    /\ \A p \in Procs :
         IsCreate(p) /\ tx'[p] # tx[p] =>
            /\ StepsLeft(tx[p]) > 0
            /\ StepsLeft(tx'[p]) >= 0
            /\ StepsLeft(tx'[p]) < StepsLeft(tx[p])
    /\ \E p \in Procs : tx'[p] # tx[p]

\* C13: a create-collection request makes at most 25 insert attempts (the
\* base name and the suffixes (1) to (24)) and finishes, every step bringing
\* it nearer to its end; when all 25 names are held it fails with 500 and has
\* created no collection.
CreateTerminates == []AttemptsBounded /\ [][CreateAdvances]_vars

\* A request has failed with 500 after 25 collisions.
CreateTerminatesWitness ==
    \E p \in Procs :
        /\ IsCreate(p) /\ Done(p) /\ tx[p].status = 500
        /\ tx[p].attempt = 25 /\ AllCandidatesHeld(p)

\* ---------------------------------------------------------------- ownership
Exists(id) == \E c \in collections : c.id = id

OwnedBy(userId, id) == \E c \in collections : c.id = id /\ c.userId = userId

\* The first collection the request names that is not the caller's: its id
\* and the role the request names it in.
Foreign(p) ==
    CASE tx[p].kind = "add" /\ ~OwnedBy(tx[p].userId, tx[p].id) ->
            [id |-> tx[p].id, message |-> "Collection not found"]
      [] /\ tx[p].kind = "move" /\ tx[p].id # tx[p].target
         /\ ~OwnedBy(tx[p].userId, tx[p].id) ->
            [id |-> tx[p].id, message |-> "Source collection not found"]
      [] /\ tx[p].kind = "move" /\ tx[p].id # tx[p].target
         /\ OwnedBy(tx[p].userId, tx[p].id)
         /\ ~OwnedBy(tx[p].userId, tx[p].target) ->
            [id |-> tx[p].target, message |-> "Target collection not found"]
      [] OTHER -> [id |-> 0, message |-> ""]

NamesForeign(p) == Foreign(p).id # 0

\* Two requests that differ in nothing but the collection that is not the
\* caller's: p names one of another user, q one that does not exist.
Twins(p, q) ==
    /\ NamesForeign(p) /\ NamesForeign(q)
    /\ tx[p].kind = tx[q].kind /\ tx[p].userId = tx[q].userId
    /\ tx[p].itemId = tx[q].itemId /\ tx[p].note = tx[q].note
    /\ Foreign(p).message = Foreign(q).message
    /\ (tx[p].id = tx[q].id \/ tx[p].target = tx[q].target)
    /\ Exists(Foreign(p).id) /\ ~Exists(Foreign(q).id)

NotOwnedOutcome ==
    \A p \in Procs :
        Done(p) /\ NamesForeign(p) =>
            /\ tx[p].status = 404
            /\ tx[p].error = [http |-> 404, code |-> "",
                              message |-> Foreign(p).message]
            /\ locks[p] = {}
            /\ \A q \in Procs :
                 Done(q) /\ Twins(p, q) =>
                    tx[q].status = tx[p].status /\ tx[q].error = tx[p].error

NotOwnedStep ==
    \A p \in Procs :
        NamesForeign(p) /\ IsStepOf(p) =>
            /\ tx'[p].pc \in {"done", "target"}
            /\ tx'[p].inserted = {} /\ tx'[p].deleted = {}
            /\ UNCHANGED <<users, collections, items>>

\* C14: an add-item or move-item request that names a collection of another
\* user ends exactly as the same request naming a collection that does not
\* exist (404, the same message), and changes nothing in the store.
NotOwnedIsNotFound == []NotOwnedOutcome /\ [][NotOwnedStep]_vars

\* The request on another user's collection and its twin on a collection
\* that does not exist have both finished, for add-item and for move-item.
NotOwnedIsNotFoundWitness ==
    \E p, q \in Procs :
        /\ Done(p) /\ Done(q) /\ Twins(p, q)
        /\ tx[p].status = 404
        /\ \E r \in items : r.collectionId = Foreign(p).id /\ r.itemId = tx[p].itemId

\* ------------------------------------------------------------------ listing
\* The worth of an item: 2 when its note is not empty after trimming
\* whitespace, 1 otherwise (no note, an empty note, a note of whitespace).
Worth(r) == IF ~r.note.isNull /\ trim(r.note.text) # "" THEN 2 ELSE 1

\* The relevance score of the collection with this id: the sum of the worth
\* of its items.
Score(id) ==
    Cardinality({r \in ItemsOf(items, id) : Worth(r) = 2}) * 2
    + Cardinality({r \in ItemsOf(items, id) : Worth(r) = 1})

Lists(p) == tx[p].kind = "list" /\ tx[p].pc = "list" /\ tx'[p].pc = "done"

ListOrderStep ==
    \A p \in Procs :
        Lists(p) =>
            \A i \in 1..(Len(tx'[p].result) - 1) :
                LET x == tx'[p].result[i]
                    y == tx'[p].result[i + 1] IN
                \/ Score(x.id) > Score(y.id)
                \/ Score(x.id) = Score(y.id) /\ x.createdAt >= y.createdAt

\* C15: list-collections returns the collections by relevance score
\* descending, ties on the score by creation time descending: of two adjacent
\* entries x before y, score(x) > score(y), or the scores are equal and
\* createdAt(x) >= createdAt(y).
ListOrder == [][ListOrderStep]_vars

ListContentStep ==
    \A p \in Procs :
        Lists(p) =>
            LET results == tx'[p].result IN
            /\ \A c \in collections :
                 c.userId = tx[p].userId =>
                    Cardinality({i \in DOMAIN results : results[i].id = c.id}) = 1
            /\ \A i \in DOMAIN results :
                 /\ \E c \in collections :
                       c.id = results[i].id /\ c.userId = tx[p].userId
                 /\ results[i].itemCount = Count(results[i].id)
                 /\ results[i].relevanceScore = Score(results[i].id)

\* C16: list-collections returns every collection of the caller once and no
\* other, each with itemCount the number of its items and relevanceScore the
\* sum over its items of 2 for a note that is not empty after trimming
\* whitespace and 1 otherwise; a collection without items has count 0 and
\* score 0.
ListContent == [][ListContentStep]_vars

\* ------------------------------------------------- errors raised by the store
IsService(p) == tx[p].kind \in {"add", "move"}

\* C17: when the store rejects the insert of add-item or move-item, the
\* request ends with 400 for the capacity trigger's error (P0001, 'Collection
\* is full') and with 409 for the unique violation (23505), never with 500.
StoreErrorsMapped ==
    \A p \in Procs :
        IsService(p) /\ Done(p) =>
            /\ tx[p].error.code = "P0001" => tx[p].status = 400
            /\ tx[p].error.code = "23505" => tx[p].status = 409

\* ----------------------------------------------------------------- rollback
DomainError(t) == t.pc = "done" /\ t.status \in {400, 404, 409}

RolledBack ==
    \A p \in Procs :
        IsService(p) /\ DomainError(tx[p]) =>
            locks[p] = {} /\ tx[p].inserted = {} /\ tx[p].deleted = {}

\* The step in which a request ends in a domain error leaves the store as it
\* is, and the store changes in no step but the last one of a request that
\* succeeds: a request that fails has changed nothing.
RollbackStep ==
    /\ \A p \in Procs :
         IsService(p) /\ ~Done(p) /\ DomainError(tx'[p]) =>
            /\ UNCHANGED <<users, collections, items>>
            /\ locks'[p] = {}
    /\ <<users, collections, items>>' # <<users, collections, items>> =>
         \E p \in Procs :
            ~Done(p) /\ tx'[p].pc = "done" /\ tx'[p].status \in {200, 201}

\* C18: an add-item or move-item request that ends in a domain error
\* (NotFound, Conflict, CapacityExceeded) is rolled back: users, collections
\* and items are as before the request, and every row lock of its
\* transaction is released.
Rollback == []RolledBack /\ [][RollbackStep]_vars

\* A request has ended with Conflict after it had locked its collection, or
\* with NotFound after it had locked its source.
RollbackWitness ==
    \E p \in Procs :
        /\ IsService(p) /\ DomainError(tx[p]) /\ locks[p] = {}
        /\ \/ tx[p].status = 409
           \/ tx[p].kind = "move" /\ tx[p].status = 404
                /\ OwnedBy(tx[p].userId, tx[p].id)

\* ----------------------------------------------------------- authentication
Anonymous(p) == tx[p].header.isNull \/ tx[p].header.text = ""

Unauthenticated ==
    \A p \in Procs :
        /\ Anonymous(p) /\ Done(p) => tx[p].status = 401
        /\ Anonymous(p) => locks[p] = {} /\ tx[p].inserted = {} /\ tx[p].deleted = {}
        /\ "" \notin users
        /\ \A c \in collections : c.userId # ""

UnauthenticatedStep ==
    \A p \in Procs :
        Anonymous(p) /\ IsStepOf(p) =>
            /\ tx'[p].pc = "done" /\ tx'[p].status = 401
            /\ UNCHANGED <<users, collections, items, itemSeq, collSeq>>

\* C19: a request without a caller identity (X-User-ID missing or empty) is
\* answered with 401 before any operation runs: it creates and changes no
\* user, collection or item.
NoIdentity == []Unauthenticated /\ [][UnauthenticatedStep]_vars

\* Requests without the header and with an empty header have been refused,
\* for create-collection among them.
NoIdentityWitness ==
    \E p, q \in Procs :
        /\ Done(p) /\ tx[p].header = NoHeader /\ tx[p].status = 401
        /\ Done(q) /\ tx[q].header = Header("") /\ tx[q].status = 401
        /\ tx[q].kind = "create"

\* --------------------------------------------------------------- lock order
\* The statements of the duplicate-id probe and of the full scan.
ProbePcs == {"existing", "existingLock", "duplicate", "duplicateLock"}

ScanPcs == {"lockedItems", "lockedItemsLock",
            "lockedTargetItems", "lockedTargetItemsLock"}

\* A transaction holds the lock of an item row only together with the lock
\* of the row's collection.
CollectionRowFirst ==
    \A p \in Procs :
        IsService(p) =>
            \A r \in items :
                ItemKey(r.id) \in locks[p] => CollKey(r.collectionId) \in locks[p]

ProbeBeforeScanStep ==
    \A p \in Procs :
        IsService(p) =>
            /\ tx[p].pc \in ScanPcs => tx'[p].pc \notin ProbePcs
            /\ tx[p].pc \in ProbePcs /\ tx'[p].pc \notin ProbePcs \cup {"done"} =>
                 tx'[p].pc \in ScanPcs

\* C20: every code path that locks rows of a collection's item set locks the
\* collection row first, then the rows of the duplicate-id probe, then the
\* rows of the full scan, add-item on its collection and move-item on its
\* target alike.
LockOrder == []CollectionRowFirst /\ [][ProbeBeforeScanStep]_vars

\* The statements of each operation in the order they run.
Statements(kind) ==
    IF kind = "add"
    THEN <<"collection", "existing", "existingLock", "lockedItems",
           "lockedItemsLock", "insert">>
    ELSE <<"source", "target", "item", "itemLock", "lockedTargetItems",
           "lockedTargetItemsLock", "duplicate", "duplicateLock", "insert">>

StatementOrderStep ==
    \A p \in Procs :
        IsService(p) /\ IsStepOf(p) =>
            \A i \in 1..(Len(Statements(tx[p].kind)) - 1) :
                tx[p].pc = Statements(tx[p].kind)[i] =>
                    tx'[p].pc \in {Statements(tx[p].kind)[i + 1], "done"}

\* C20 as amended: the collection row is locked before any row of its item
\* set; add-item then locks the rows of the duplicate-id probe and then
\* those of the full scan, move-item on its target those of the full scan
\* first and then those of the duplicate-id probe.
LockOrderByOperation == []CollectionRowFirst /\ [][StatementOrderStep]_vars

\* A move-item stands at its duplicate-id probe and holds the locks of its
\* target and of the target's rows, which its full scan took.
LockOrderByOperationWitness ==
    \E p \in Procs :
        /\ tx[p].kind = "move" /\ tx[p].pc = "duplicate"
        /\ CollKey(tx[p].target) \in locks[p]
        /\ \E r \in ItemsOf(items, tx[p].target) : ItemKey(r.id) \in locks[p]

\* ------------------------------------------------- the order of the checks
\* Adds and moves whose request fails more than one check at once: the item is
\* there and the collection is full, the caller owns nothing of it, the item
\* is missing and the target is full or of another user, source and target
\* are one collection.
OrderRequests ==
    << AddReq("u1", 1, "x", NullNote),
       AddReq("u1", 1, "y", NullNote),
       AddReq("u2", 1, "x", NullNote),
       MoveReq("u1", "x", 1, 2),
       MoveReq("u1", "y", 1, 2),
       MoveReq("u1", "y", 1, 3),
       MoveReq("u1", "x", 9, 3),
       MoveReq("u1", "x", 1, 1),
       MoveReq("u1", "y", 1, 1),
       MoveReq("u2", "x", 1, 1),
       MoveReq("u1", "x", 9, 9) >>

InitOrder ==
    /\ InitStore
    /\ \E c1 \in {<<0, TRUE>>, <<4, TRUE>>, <<5, FALSE>>},
          c2 \in {<<0, FALSE>>, <<4, TRUE>>, <<5, FALSE>>} :
         items = RowsOf(1, c1) \cup RowsOf(2, c2) \cup RowsOf(3, <<0, TRUE>>)
    /\ \E w \in {v \in Workloads(NumProcs, OrderRequests) : Sorted(v)} :
         tx = [p \in 1..NumProcs |-> OrderRequests[w[p]]]
    /\ locks = [p \in 1..NumProcs |-> {}]

SpecOrder == InitOrder /\ [][NextMixed]_vars

\* The request of p names an item id the collection tx[p].id holds.
InCollection(p) == \E r \in ItemsOf(items, tx[p].id) : r.itemId = tx[p].itemId

Ends(p) == IsStepOf(p) /\ tx'[p].pc = "done"

AddOutcome(p) ==
    IF ~OwnedBy(tx[p].userId, tx[p].id) THEN 404
    ELSE IF InCollection(p) THEN 409
    ELSE IF Count(tx[p].id) >= MAX_ITEMS_PER_COLLECTION THEN 400
    ELSE 201

AddCheckOrderStep ==
    \A p \in Procs :
        tx[p].kind = "add" /\ Ends(p) => tx'[p].status = AddOutcome(p)

\* C21: an add-item request ends with the status of the first check it fails,
\* taken in the order ownership, duplicate, capacity: NotFound (404) on a
\* collection the caller does not own whatever it holds, Conflict (409) and not
\* CapacityExceeded (400) when the item id is already in a collection of 5 rows.
AddCheckOrder == [][AddCheckOrderStep]_vars

AddCheckOrderWitness ==
    \E p, q \in Procs :
        /\ tx[p].kind = "add" /\ Done(p) /\ tx[p].status = 409
        /\ tx[p].userId = "u1" /\ InCollection(p)
        /\ Count(tx[p].id) = MAX_ITEMS_PER_COLLECTION
        /\ tx[q].kind = "add" /\ Done(q) /\ tx[q].status = 404
        /\ tx[q].userId = "u2" /\ tx[q].id = tx[p].id

\* The status, and for NotFound the message, of the first check a move fails.
MoveOutcome(p) ==
    IF ~OwnedBy(tx[p].userId, tx[p].id) THEN <<404, "Source collection not found">>
    ELSE IF ~OwnedBy(tx[p].userId, tx[p].target)
    THEN <<404, "Target collection not found">>
    ELSE IF ~InSource(items, p) THEN <<404, "Item not found in source collection">>
    ELSE IF Count(tx[p].target) >= MAX_ITEMS_PER_COLLECTION THEN <<400, "">>
    ELSE IF InTarget(items, p) THEN <<409, "">>
    ELSE <<200, "">>

MoveCheckOrderStep ==
    \A p \in Procs :
        tx[p].kind = "move" /\ tx[p].id # tx[p].target /\ Ends(p) =>
            /\ tx'[p].status = MoveOutcome(p)[1]
            /\ tx'[p].status = 404 => tx'[p].error.message = MoveOutcome(p)[2]
            /\ tx'[p].status # 200 => UNCHANGED <<collections, items>>

\* C22: a move-item request ends with the status of the first check it fails,
\* taken in the order source collection, target collection, item in source,
\* target capacity, target duplicate: CapacityExceeded (400) and not Conflict
\* when the target holds 5 rows one of which is the item, NotFound when the
\* item is not in the source even if the target is full; a failed move leaves
\* the rows of source and target as they were.
MoveCheckOrder == [][MoveCheckOrderStep]_vars

MoveCheckOrderWitness ==
    \E p, q \in Procs :
        /\ tx[p].kind = "move" /\ Done(p) /\ tx[p].status = 400
        /\ InSource(items, p) /\ InTarget(items, p)
        /\ Count(tx[p].target) = MAX_ITEMS_PER_COLLECTION
        /\ tx[q].kind = "move" /\ Done(q) /\ tx[q].status = 404
        /\ tx[q].id = tx[p].id /\ tx[q].target = tx[p].target
        /\ ~InSource(items, q)

\* A move whose source and target are one collection.
SameIds(p) == tx[p].kind = "move" /\ tx[p].id = tx[p].target

\* Such a request is answered whoever holds whichever lock.
SameIdsNeverWait ==
    \A p \in Procs : SameIds(p) /\ ~Done(p) => ENABLED MoveSource(p)

SameIdsStep ==
    \A p \in Procs :
        SameIds(p) /\ IsStepOf(p) =>
            /\ tx[p].pc = "source" /\ tx'[p].pc = "done"
            /\ tx'[p].status = 400
            /\ UNCHANGED <<users, collections, items, itemSeq, collSeq, locks>>

\* C23: a move-item request whose source and target ids are equal is answered
\* 400 by its first step, which waits for no lock, takes none and leaves the
\* store as it was, whether the collection exists, is the caller's or holds
\* the item.
SameIdsRejected == []SameIdsNeverWait /\ [][SameIdsStep]_vars

SameIdsRejectedWitness ==
    \E p, q \in Procs :
        /\ SameIds(p) /\ Done(p) /\ tx[p].status = 400
        /\ Exists(tx[p].id) /\ ~OwnedBy(tx[p].userId, tx[p].id)
        /\ CollKey(tx[p].id) \in locks[q]

EmptyNameStep ==
    \A p \in Procs :
        tx[p].kind = "create" /\ Ends(p) /\ tx'[p].status = 400 =>
            UNCHANGED <<users, collections, items>>

\* C24: a create-collection request rejected because its name is empty after
\* trimming leaves users, collections and items as they were, also when its
\* user id had no row before.
EmptyNameNoEffect == [][EmptyNameStep]_vars

\* ------------------------------------------------------- two users at work
\* Requests of either user on their own collections and on the other's: each
\* arrives with the X-User-ID header it is paired with.
TenantRequests ==
    << <<AddReq("", 1, "y", NullNote), "u1">>,
       <<AddReq("", 3, "y", NullNote), "u1">>,
       <<AddReq("", 1, "x", NullNote), "u2">>,
       <<MoveReq("", "x", 1, 2), "u1">>,
       <<MoveReq("", "x", 1, 3), "u1">>,
       <<MoveReq("", "x", 3, 1), "u1">>,
       <<MoveReq("", "x", 3, 1), "u2">>,
       <<CreateReq("", "A"), "u1">>,
       <<CreateReq("", "A"), "u2">>,
       <<ListReq(""), "u1">>,
       <<ListReq(""), "u2">> >>

InitTenants ==
    /\ InitStore
    /\ \E c1 \in {<<0, TRUE>>, <<4, FALSE>>}, c3 \in {<<0, TRUE>>, <<4, TRUE>>} :
         items = RowsOf(1, c1) \cup RowsOf(3, c3)
    /\ \E w \in {v \in Workloads(NumProcs, TenantRequests) : Sorted(v)} :
         tx = [p \in 1..NumProcs |->
                 Incoming(TenantRequests[w[p]][1], Header(TenantRequests[w[p]][2]))]
    /\ locks = [p \in 1..NumProcs |-> {}]

SpecTenants == InitTenants /\ [][NextAuth]_vars

\* The collections of cs, and the rows of rows in a collection of cs, that
\* belong to a user other than userId.
OthersCollections(cs, userId) == {c \in cs : c.userId # userId}

OthersItems(cs, rows, userId) ==
    {r \in rows : \E c \in cs : c.id = r.collectionId /\ c.userId # userId}

IsolationStep ==
    \A p \in Procs :
        IsStepOf(p) =>
            LET U == tx'[p].userId IN
            /\ OthersCollections(collections', U) = OthersCollections(collections, U)
            /\ OthersItems(collections', items', U) = OthersItems(collections, items, U)

\* C25: whatever a request issued with user id U does and however it ends, the
\* collections of every other user and the rows in them stay as they were; no
\* move puts a row into, or takes one out of, a collection of another user.
Isolation == [][IsolationStep]_vars

IsolationWitness ==
    \E p, q \in Procs :
        /\ tx[p].kind = "move" /\ Done(p) /\ tx[p].status = 404
        /\ tx[p].userId = "u2" /\ OwnedBy("u2", tx[p].id) /\ OwnedBy("u1", tx[p].target)
        /\ InSource(items, p) /\ ~InTarget(items, p)
        /\ Count(tx[p].target) < MAX_ITEMS_PER_COLLECTION
        /\ tx[q].kind = "add" /\ Done(q) /\ tx[q].status = 404
        /\ tx[q].userId = "u1" /\ OwnedBy("u2", tx[q].id)

\* ------------------------------------------- moves of one item, two targets
\* User u1 holds collections 1, 2 and 4; item x is in collection 1 and every
\* connection moves it out of there, into collection 2 or into collection 4.
RaceRequests ==
    << MoveReq("u1", "x", 1, 2),
       MoveReq("u1", "x", 1, 4) >>

InitRace ==
    /\ users = {"u1", "u2"}
    /\ collections =
         {[id |-> 1, userId |-> "u1", name |-> "A", createdAt |-> 1],
          [id |-> 2, userId |-> "u1", name |-> "B", createdAt |-> 2],
          [id |-> 3, userId |-> "u2", name |-> "A", createdAt |-> 3],
          [id |-> 4, userId |-> "u1", name |-> "C", createdAt |-> 4]}
    /\ collSeq = 4
    /\ clock = 4
    /\ itemSeq = 50
    /\ \E c1 \in {<<0, TRUE>>, <<4, TRUE>>},
          c2 \in {<<0, FALSE>>, <<4, FALSE>>, <<5, FALSE>>},
          c4 \in {<<0, FALSE>>, <<4, FALSE>>, <<5, FALSE>>} :
         items = RowsOf(1, c1) \cup RowsOf(2, c2) \cup RowsOf(4, c4)
    /\ \E w \in {v \in Workloads(NumProcs, RaceRequests) : Sorted(v)} :
         tx = [p \in 1..NumProcs |-> RaceRequests[w[p]]]
    /\ locks = [p \in 1..NumProcs |-> {}]

NextRace ==
    \E p \in 1..NumProcs :
        \/ MoveSource(p)
        \/ MoveTarget(p)
        \/ MoveItem(p)
        \/ MoveItemLock(p)
        \/ MoveLockedTargetItems(p)
        \/ MoveLockedTargetItemsLock(p)
        \/ MoveDuplicate(p)
        \/ MoveDuplicateLock(p)
        \/ InsertStart(p)
        \/ TriggerCheck(p)
        \/ IndexInsert(p)
        \/ MoveDelete(p)
        \/ Commit(p)

SpecRace == InitRace /\ [][NextRace]_vars

\* The rows of item id among the rows of the collections of userId.
RowsOfItem(userId, itemId) ==
    {r \in items : r.itemId = itemId /\ OwnedBy(userId, r.collectionId)}

\* The target of p had room before the moves began: the moved item aside, it
\* holds fewer than 5 rows (no other row is ever written here).
HadRoom(p) ==
    Cardinality({r \in ItemsOf(items, tx[p].target) : r.itemId # tx[p].itemId})
        < MAX_ITEMS_PER_COLLECTION

RaceOutcome ==
    \E w \in Procs :
        /\ tx[w].status = 200
        /\ \A q \in Procs \ {w} :
              /\ tx[q].status = 404
              /\ tx[q].error.message = "Item not found in source collection"
        /\ Cardinality(RowsOfItem(tx[w].userId, tx[w].itemId)) = 1
        /\ \A r \in RowsOfItem(tx[w].userId, tx[w].itemId) :
              r.collectionId = tx[w].target

\* C26: of the concurrent moves of one user that take the same item out of
\* the same source into targets with room, exactly one succeeds and every
\* other one ends NotFound, whatever the interleaving; no interleaving is
\* stuck, and in the end the item has one row, in the target of the winner.
MovesRace ==
    /\ ~AllDone => ENABLED NextRace
    /\ AllDone /\ (\A p \in Procs : HadRoom(p)) => RaceOutcome

MovesRaceWitness ==
    \E p, q \in Procs :
        /\ AllDone /\ HadRoom(p) /\ HadRoom(q)
        /\ tx[p].target # tx[q].target
        /\ tx[p].status = 200 /\ tx[q].status = 404
        /\ InTarget(items, p) /\ ~InSource(items, p) /\ ~InTarget(items, q)

=============================================================================
